---- MODULE Spec2Model ----
(***************************************************************************)
(* Model of the document normalisation pipeline of src/main.py:            *)
(* orientation detection, rotation correction, contrast / brightness       *)
(* enhancement, binarization, and the batch driver that writes one raster  *)
(* per processed page.                                                     *)
(*                                                                         *)
(* A raster is a record [w, h, px]; px is the row-major pixel sequence.    *)
(* A colour pixel is a triple, a grayscale pixel a number 0..255.          *)
(* Text (file names, the detector's output) is a sequence of characters,   *)
(* and a character is its Unicode code point, as in a Python str.          *)
(***************************************************************************)
EXTENDS Integers, Sequences, FiniteSets, TLC

VARIABLES
    page,              \* SpecPage: the decoded page and the collaborators' answers
    imgRun,            \* SpecPage: locals of enhance_image_with_previous_filter
    pdfRun,            \* SpecPage: locals of one iteration of process_pdf_with_previous_filter
    pin,               \* SpecPoint: a grayscale raster
    pouts,             \* SpecPoint: the rasters successive thresholdings of pin gave
    folder,            \* Spec: os.listdir(input_folder), in the order it is iterated
    fi,                \* Spec: position of `filename` in folder
    pc,                \* Spec: where process_office_maintenance_documents stands
    pi,                \* Spec: the index i of the enumerate loop in progress
    processed_images,  \* Spec: the list process_pdf_with_previous_filter builds, or None
    enhanced_image,    \* Spec: what enhance_image_with_previous_filter returned
    writes,            \* Spec: the files written into the output folder, in order
    completed,         \* Spec: the pages (file, page) whose binarized raster was produced
    log                \* Spec: the failures printed

pageVars == <<page, imgRun, pdfRun>>
pointVars == <<pin, pouts>>
batchVars == <<folder, fi, pc, pi, processed_images, enhanced_image, writes, completed, log>>
vars == <<page, imgRun, pdfRun, pin, pouts, folder, fi, pc, pi, processed_images,
          enhanced_image, writes, completed, log>>

----------------------------------------------------------------------------
(* Bounds of the model *)

MaxPixels == 2

MaxFiles == 3

----------------------------------------------------------------------------
(* Python built-ins used by the code *)

\* the characters literals are written with, as runs <<code point of the
\* first character, the characters in code point order>>
Printable ==
    <<
       <<9, <<"\t", "\n">> >>,
       <<13, <<"\r">> >>,
       <<32, <<" ", "!">> >>,
       <<35, <<"#", "$", "%", "&">> >>,
       <<40, <<"(", ")", "*", "+", ",", "-", ".", "/", "0", "1", "2", "3", "4", "5",
             "6", "7", "8", "9", ":", ";", "<", "=", ">", "?", "@", "A", "B", "C",
             "D", "E", "F", "G", "H", "I", "J", "K", "L", "M", "N", "O", "P", "Q",
             "R", "S", "T", "U", "V", "W", "X", "Y", "Z", "[">> >>,
       <<93, <<"]", "^", "_">> >>,
       <<97, <<"a", "b", "c", "d", "e", "f", "g", "h", "i", "j", "k", "l", "m", "n",
             "o", "p", "q", "r", "s", "t", "u", "v", "w", "x", "y", "z", "{", "|",
             "}", "~">> >>
    >>

\* ord(c) of a character written in a literal
Ord(c) ==
    LET r == CHOOSE q \in 1..Len(Printable) : \E k \in 1..Len(Printable[q][2]) : Printable[q][2][k] = c
    IN  Printable[r][1] + (CHOOSE k \in 1..Len(Printable[r][2]) : Printable[r][2][k] = c) - 1

CapitalA == Ord("A")
CapitalZ == Ord("Z")
DigitZero == Ord("0")
Dot == Ord(".")
Underscore == Ord("_")
PlusSign == Ord("+")
MinusSign == Ord("-")

\* a str literal, written as its characters
Text(s) == [k \in 1..Len(s) |-> Ord(s[k])]

Abs(x) == IF x < 0 THEN -x ELSE x

RECURSIVE SumSeq(_)
SumSeq(s) == IF s = <<>> THEN 0 ELSE Head(s) + SumSeq(Tail(s))

\* s.find(sub): index (1-based) of the leftmost occurrence, 0 when absent
Find(s, sub) ==
    LET hits == { i \in 1..(Len(s) - Len(sub) + 1) : SubSeq(s, i, i + Len(sub) - 1) = sub }
    IN  IF hits = {} THEN 0 ELSE CHOOSE i \in hits : \A j \in hits : i <= j

\* 'sub in s'
Contains(s, sub) == Find(s, sub) # 0

\* s.split(sep), sep non-empty
RECURSIVE Split(_, _)
Split(s, sep) ==
    LET i == Find(s, sep)
    IN  IF i = 0 THEN <<s>>
        ELSE <<SubSeq(s, 1, i - 1)>> \o Split(SubSeq(s, i + Len(sep), Len(s)), sep)

\* int() strips the characters str.isspace() holds for, U+001C..U+001F excepted
Whitespace ==
    {9, 10, 11, 12, 13, 32, 133, 160, 5760} \cup (8192..8202) \cup {8232, 8233, 8239, 8287, 12288}

RECURSIVE LStrip(_)
LStrip(s) == IF s # <<>> /\ Head(s) \in Whitespace THEN LStrip(Tail(s)) ELSE s

RECURSIVE RStrip(_)
RStrip(s) ==
    IF s # <<>> /\ s[Len(s)] \in Whitespace THEN RStrip(SubSeq(s, 1, Len(s) - 1)) ELSE s

\* int() reads every decimal digit of Unicode (category Nd, version 14.0); DecimalZeros
\* holds the digit zero of each script, its digits 1..9 follow it
DecimalZeros ==
    { 48, 1632, 1776, 1984, 2406, 2534, 2662, 2790, 2918, 3046,
      3174, 3302, 3430, 3558, 3664, 3792, 3872, 4160, 4240, 6112,
      6160, 6470, 6608, 6784, 6800, 6992, 7088, 7232, 7248, 42528,
      43216, 43264, 43472, 43504, 43600, 44016, 65296, 66720, 68912, 69734,
      69872, 69942, 70096, 70384, 70736, 70864, 71248, 71360, 71472, 71904,
      72016, 72784, 73040, 73120, 92768, 92864, 93008, 120782, 120792, 120802,
      120812, 120822, 123200, 123632, 125264, 130032 }

IsDigit(c) == \E z \in DecimalZeros : z <= c /\ c <= z + 9

DigitVal(c) == c - (CHOOSE z \in DecimalZeros : z <= c /\ c <= z + 9)

RECURSIVE DigitsVal(_, _)
DigitsVal(s, acc) ==
    IF s = <<>> THEN acc
    ELSE IF Head(s) = Underscore THEN DigitsVal(Tail(s), acc)
    ELSE DigitsVal(Tail(s), 10 * acc + DigitVal(Head(s)))

\* sys.get_int_max_str_digits(): the most digits int() converts
MaxStrDigits == 4300

\* int(s) for a str: surrounding whitespace stripped, an optional sign, then
\* at most MaxStrDigits decimal digits with single underscores allowed between
\* digits; anything else raises ValueError.
PyInt(s) ==
    LET t    == RStrip(LStrip(s))
        sgn  == t # <<>> /\ Head(t) \in {PlusSign, MinusSign}
        body == IF sgn THEN Tail(t) ELSE t
        ok   == /\ body # <<>>
                /\ \A i \in 1..Len(body) :
                      \/ IsDigit(body[i])
                      \/ /\ body[i] = Underscore
                         /\ i > 1 /\ i < Len(body)
                         /\ IsDigit(body[i - 1]) /\ IsDigit(body[i + 1])
                /\ Cardinality({ i \in 1..Len(body) : IsDigit(body[i]) }) <= MaxStrDigits
    IN  IF ~ok THEN [raises |-> TRUE, val |-> 0]
        ELSE [raises |-> FALSE,
              val |-> IF sgn /\ Head(t) = MinusSign THEN -DigitsVal(body, 0) ELSE DigitsVal(body, 0)]

----------------------------------------------------------------------------
(* The orientation detector (pytesseract.image_to_osd), a collaborator:    *)
(* it raises, or returns a text.                                           *)

RotateTag == Text(<<"R", "o", "t", "a", "t", "e", ":", " ">>)

OsdHead == Text(<<"P", "a", "g", "e", " ", "n", "u", "m", "b", "e", "r", ":", " ", "0", "\n">>)

OsdTail == Text(<<"\n", "S", "c", "r", "i", "p", "t", ":", " ", "L", "a", "t", "i", "n">>)

RECURSIVE NatToText(_)
NatToText(n) == IF n < 10 THEN <<DigitZero + n>> ELSE NatToText(n \div 10) \o <<DigitZero + (n % 10)>>

IntToText(n) == IF n < 0 THEN <<MinusSign>> \o NatToText(-n) ELSE NatToText(n)

\* the report of a detector that found rotation `a`
OsdReport(a) == OsdHead \o RotateTag \o IntToText(a) \o OsdTail

\* a report with no 'Rotate: ' line
OsdNoRotate == OsdHead \o Text(<<"S", "c", "r", "i", "p", "t", ":", " ", "L", "a", "t", "i", "n">>)

\* a report whose first 'Rotate: ' line does not hold a number
OsdGarbled == Text(<<"R", "o", "t", "a", "t", "e", ":", " ", "9", "O", "\n",
                "R", "o", "t", "a", "t", "e", ":", " ", "9", "0">>)

\* a report whose first 'Rotate: ' line is padded, followed by a second one
OsdPadded == Text(<<"R", "o", "t", "a", "t", "e", ":", " ", " ", "+", "1", "_", "8", "0", "\r", "\n",
               "R", "o", "t", "a", "t", "e", ":", " ", "9", "0">>)

\* a report whose number is written in Arabic-Indic digits between a vertical
\* tab and a no-break space
OsdUnicode == RotateTag \o <<11, 1641, 1632, 160>> \o OsdTail

\* a report whose number has one digit more than int() converts
OsdOverlong == RotateTag \o [k \in 1..(MaxStrDigits + 1) |-> DigitZero + 1]

DetectedAngles == {-355, -180, -6, -5, -4, 0, 4, 5, 6, 90, 180, 270, 354, 355, 359, 360}

OsdRaises == [raises |-> TRUE, text |-> <<>>]

OsdOf(a) == [raises |-> FALSE, text |-> OsdReport(a)]

OsdOutcomes ==
    {OsdRaises}
      \cup { OsdOf(a) : a \in DetectedAngles }
      \cup { [raises |-> FALSE, text |-> t] : t \in {OsdNoRotate, OsdGarbled, OsdPadded, OsdUnicode, OsdOverlong} }

----------------------------------------------------------------------------
(* Rotation decision *)

MsgOsdFailed == "Text orientation detection failed"
MsgRotateFailed == "Rotation correction failed"
MsgRotating == "Rotating image"
MsgEnhanceFailed == "Error enhancing image with previous filter"

\* calculate_text_orientation_angle with an except branch that answers a quarter turn
calculate_text_orientation_angle_quarter(osd) ==
    IF osd.raises THEN [angle |-> 90, log |-> <<MsgOsdFailed>>]
    ELSE LET lines         == Split(osd.text, Text(<<"\n">>))
             rotation_info == SelectSeq(lines, LAMBDA line : Contains(line, RotateTag))
         IN  IF rotation_info # <<>>
             THEN LET rotation == PyInt(Split(rotation_info[1], RotateTag)[2])
                  IN  IF rotation.raises THEN [angle |-> 90, log |-> <<MsgOsdFailed>>]
                      ELSE [angle |-> rotation.val, log |-> <<>>]
             ELSE [angle |-> 0, log |-> <<>>]

\* calculate_text_orientation_angle: the angle and what was printed
calculate_text_orientation_angle(osd) ==
    IF osd.raises THEN [angle |-> 0, log |-> <<MsgOsdFailed>>]
    ELSE LET lines         == Split(osd.text, Text(<<"\n">>))
             rotation_info == SelectSeq(lines, LAMBDA line : Contains(line, RotateTag))
         IN  IF rotation_info # <<>>
             THEN LET rotation == PyInt(Split(rotation_info[1], RotateTag)[2])
                  IN  IF rotation.raises THEN [angle |-> 0, log |-> <<MsgOsdFailed>>]
                      ELSE [angle |-> rotation.val, log |-> <<>>]
             ELSE [angle |-> 0, log |-> <<>>]

SignificantLow == 5
SignificantHigh == 355

\* the significance test with its lower comparison made inclusive
Significant_inclusive(rotation_angle) ==
    Abs(rotation_angle) >= SignificantLow /\ Abs(rotation_angle) < SignificantHigh

\* the test of needs_rotation_correction on the detected angle
Significant(rotation_angle) ==
    Abs(rotation_angle) > SignificantLow /\ Abs(rotation_angle) < SignificantHigh

\* needs_rotation_correction once calculate_text_orientation_angle answered r
rotation_decision(r) ==
    IF Significant(r.angle)
    THEN [needs |-> TRUE, angle |-> r.angle, log |-> r.log]
    ELSE [needs |-> FALSE, angle |-> 0, log |-> r.log]

\* needs_rotation_correction: (needs_rotation, rotation_angle) and what was printed
needs_rotation_correction(osd) == rotation_decision(calculate_text_orientation_angle(osd))

\* an except branch that answers a blank raster instead of its input
rotation_failed_blank(image) == [image EXCEPT !.px = [i \in 1..Len(image.px) |-> <<0, 0, 0>>]]

\* the except branch of correct_image_rotation: the raster it returns
rotation_failed(image) == image

\* what correct_image_rotation returns once needs_rotation_correction has
\* answered n: the raster, the angles imutils.rotate_bound was called with
\* (rotateCalls) and what was printed. pg.fault "rotate": rotate_bound raises;
\* pg.rotOut: the raster rotate_bound returns.
rotation_outcome(image, pg, n) ==
    IF ~n.needs
    THEN [img |-> image, rotateCalls |-> <<>>, osdAsked |-> TRUE,
          needs_rotation |-> FALSE, rotation_angle |-> n.angle, log |-> n.log]
    ELSE IF pg.fault = "rotate"
    THEN [img |-> rotation_failed(image), rotateCalls |-> <<n.angle>>, osdAsked |-> TRUE,
          needs_rotation |-> TRUE, rotation_angle |-> n.angle,
          log |-> n.log \o <<MsgRotating, MsgRotateFailed>>]
    ELSE [img |-> pg.rotOut, rotateCalls |-> <<n.angle>>, osdAsked |-> TRUE,
          needs_rotation |-> TRUE, rotation_angle |-> n.angle,
          log |-> n.log \o <<MsgRotating>>]

\* correct_image_rotation on a BGR raster. pg carries the collaborators'
\* behaviour on this page: pg.osd (the detector's answer) and pg.fault ("cvt":
\* cv2.cvtColor raises before the detector is called).
correct_image_rotation(image, pg) ==
    IF pg.fault = "cvt"
    THEN [img |-> rotation_failed(image), rotateCalls |-> <<>>, osdAsked |-> FALSE,
          needs_rotation |-> FALSE, rotation_angle |-> 0, log |-> <<MsgRotateFailed>>]
    ELSE rotation_outcome(image, pg, needs_rotation_correction(pg.osd))

----------------------------------------------------------------------------
(* Pillow and OpenCV operations the pipeline applies *)

\* cv2.cvtColor(_, COLOR_RGB2BGR) and COLOR_BGR2RGB: swap the first and third channel
CvSwapRB(r) == [r EXCEPT !.px = [k \in 1..Len(r.px) |-> <<r.px[k][3], r.px[k][2], r.px[k][1]>>]]

\* Image.convert("L") of an RGB image (ITU-R 601-2 luma, 16-bit fixed point)
LumaOf(p) == (p[1] * 19595 + p[2] * 38470 + p[3] * 7471 + 32768) \div 65536

ConvertL(r) == [r EXCEPT !.px = [k \in 1..Len(r.px) |-> LumaOf(r.px[k])]]

\* Image.blend(im1, im2, alpha) on "L" images, alpha = num / den
BlendPx(a, b, num, den) ==
    LET t == a * den + num * (b - a)      \* den * (a + alpha * (b - a))
    IN  IF num = 0 THEN a
        ELSE IF num = den THEN b
        ELSE IF t <= 0 THEN 0
        ELSE IF t >= 255 * den THEN 255
        ELSE t \div den

Blend(im1, im2, num, den) ==
    [im2 EXCEPT !.px = [i \in 1..Len(im2.px) |-> BlendPx(im1.px[i], im2.px[i], num, den)]]

\* int(ImageStat.Stat(image).mean[0] + 0.5)
RoundedMean(image) == (2 * SumSeq(image.px) + Len(image.px)) \div (2 * Len(image.px))

\* ImageEnhance.Contrast(image).degenerate: the rounded mean, everywhere
ContrastDegenerate(image) == [image EXCEPT !.px = [k \in 1..Len(image.px) |-> RoundedMean(image)]]

\* ImageEnhance.Brightness(image).degenerate: black
BrightnessDegenerate(image) == [image EXCEPT !.px = [k \in 1..Len(image.px) |-> 0]]

\* the mean test with the comparison made inclusive
MeanAtMost(image, limit) == SumSeq(image.px) <= limit * Len(image.px)

\* np.mean(a) < limit
MeanBelow(image, limit) == SumSeq(image.px) < limit * Len(image.px)

----------------------------------------------------------------------------
(* The page pipeline, once per function that holds a copy of it *)

threshold_image == 100

\* the lambda with the comparison made inclusive
point_lambda_image_inclusive(x) == IF x <= threshold_image THEN 0 ELSE 255

\* the lambda with black and white exchanged
point_lambda_image_inverted(x) == IF x < threshold_image THEN 255 ELSE 0

\* the lambda enhance_image_with_previous_filter hands to Image.point
point_lambda_image(x) == IF x < threshold_image THEN 0 ELSE 255

\* brightness.point(lambda, "L") in enhance_image_with_previous_filter: the
\* lambda's table, applied to every pixel
point_image(image) ==
    [image EXCEPT !.px = [k \in 1..Len(image.px) |-> point_lambda_image(image.px[k])]]

threshold_pdf == 100

\* the lambda with the threshold at the midpoint
point_lambda_pdf_midpoint(x) == IF x < 128 THEN 0 ELSE 255

\* the lambda process_pdf_with_previous_filter hands to Image.point
point_lambda_pdf(x) == IF x < threshold_pdf THEN 0 ELSE 255

\* brightness.point(lambda, "L") in process_pdf_with_previous_filter
point_pdf(image) ==
    [image EXCEPT !.px = [k \in 1..Len(image.px) |-> point_lambda_pdf(image.px[k])]]

NoRaster == [w |-> 0, h |-> 0, px |-> <<>>]

None == [isNone |-> TRUE, img |-> NoRaster]

Some(r) == [isNone |-> FALSE, img |-> r]

\* the locals of a run that has not started, or that raised before setting them
NoLocals ==
    [ret |-> None, raised |-> FALSE, rotateCalls |-> <<>>, osdAsked |-> FALSE,
     needs_rotation |-> FALSE, rotation_angle |-> 0,
     img_cv |-> NoRaster, img_rotated_cv |-> NoRaster, img_gray |-> NoRaster,
     img_contrasted |-> NoRaster, factor |-> <<0, 1>>, brightness |-> NoRaster,
     img_bw |-> NoRaster, log |-> <<>>]

\* the locals correct_image_rotation's answer sets
with_rotation(L, rot) ==
    [L EXCEPT !.img_rotated_cv = rot.img, !.rotateCalls = rot.rotateCalls,
              !.osdAsked = rot.osdAsked, !.needs_rotation = rot.needs_rotation,
              !.rotation_angle = rot.rotation_angle, !.log = rot.log]

\* enhance_image_with_previous_filter, stage by stage: each operator takes the
\* locals so far and sets the locals of its lines
image_read(pg) == [NoLocals EXCEPT !.img_cv = CvSwapRB(pg.images[1])]

image_rotation(pg, L) == with_rotation(L, correct_image_rotation(L.img_cv, pg))

image_gray(L) == [L EXCEPT !.img_gray = ConvertL(CvSwapRB(L.img_rotated_cv))]

image_contrast(L) ==
    [L EXCEPT !.img_contrasted = Blend(ContrastDegenerate(L.img_gray), L.img_gray, 2, 1)]

image_factor(img_contrasted) == IF MeanBelow(img_contrasted, 128) THEN <<3, 2>> ELSE <<1, 1>>

image_brightness(L) ==
    [L EXCEPT !.factor = image_factor(L.img_contrasted),
              !.brightness = Blend(BrightnessDegenerate(L.img_contrasted), L.img_contrasted,
                                   image_factor(L.img_contrasted)[1],
                                   image_factor(L.img_contrasted)[2])]

image_bw(L) ==
    [L EXCEPT !.img_bw = point_image(L.brightness), !.ret = Some(point_image(L.brightness))]

\* the except branch: print and return None
image_except(L) == [L EXCEPT !.raised = TRUE, !.ret = None, !.log = @ \o <<MsgEnhanceFailed>>]

\* enhance_image_with_previous_filter. pg.kind tells whether image_path ends
\* with '.pdf'; pg.images is what Image.open (one raster) or convert_from_path
\* (a list, possibly empty) gives. pg.fault "decode": that call raises;
\* "enhance": an enhancement call raises.
enhance_image_with_previous_filter(pg) ==
    IF pg.fault = "decode" THEN image_except(NoLocals)
    ELSE IF pg.kind = "pdf" /\ pg.images = <<>> THEN NoLocals
    ELSE IF pg.fault = "enhance"
    THEN image_except(image_gray(image_rotation(pg, image_read(pg))))
    ELSE image_bw(image_brightness(image_contrast(image_gray(
             image_rotation(pg, image_read(pg))))))

\* the page loop of process_pdf_with_previous_filter, stage by stage
pdf_read(pg) == [NoLocals EXCEPT !.img_cv = CvSwapRB(pg.images[1])]

pdf_rotation(pg, L) == with_rotation(L, correct_image_rotation(L.img_cv, pg))

pdf_gray(L) == [L EXCEPT !.img_gray = ConvertL(CvSwapRB(L.img_rotated_cv))]

pdf_contrast(L) ==
    [L EXCEPT !.img_contrasted = Blend(ContrastDegenerate(L.img_gray), L.img_gray, 2, 1)]

pdf_factor(img_contrasted) == IF MeanBelow(img_contrasted, 128) THEN <<3, 2>> ELSE <<1, 1>>

pdf_brightness(L) ==
    [L EXCEPT !.factor = pdf_factor(L.img_contrasted),
              !.brightness = Blend(BrightnessDegenerate(L.img_contrasted), L.img_contrasted,
                                   pdf_factor(L.img_contrasted)[1],
                                   pdf_factor(L.img_contrasted)[2])]

pdf_bw(L) ==
    [L EXCEPT !.img_bw = point_pdf(L.brightness), !.ret = Some(point_pdf(L.brightness))]

\* an exception leaves the loop
pdf_raise(L) == [L EXCEPT !.raised = TRUE, !.ret = None]

\* one iteration of the page loop of process_pdf_with_previous_filter: the
\* raster appended to processed_images, or raised. pg.images[1] is the rendered
\* page; pg.fault "decode": rendering or opening the page raises; "enhance": an
\* enhancement call raises.
pdf_page_body(pg) ==
    IF pg.fault = "decode" THEN pdf_raise(NoLocals)
    ELSE IF pg.fault = "enhance"
    THEN pdf_raise(pdf_gray(pdf_rotation(pg, pdf_read(pg))))
    ELSE pdf_bw(pdf_brightness(pdf_contrast(pdf_gray(pdf_rotation(pg, pdf_read(pg))))))

----------------------------------------------------------------------------
(* Pages the model runs the pipeline on *)

\* RGB pixels: grays 66, 67, 128, 135, 203 and pure red (luma 76)
PixelValues ==
    { <<66, 66, 66>>, <<67, 67, 67>>, <<128, 128, 128>>, <<135, 135, 135>>,
      <<203, 203, 203>>, <<255, 0, 0>> }

\* decoded RGB rasters: one row of 1..MaxPixels pixels
Rasters ==
    UNION { { [w |-> n, h |-> 1, px |-> p] : p \in [1..n -> PixelValues] } : n \in 1..MaxPixels }

\* rasters imutils.rotate_bound may return (BGR)
RotOuts ==
    { [w |-> 1, h |-> 2, px |-> << <<66, 66, 66>>, <<203, 203, 203>> >>],
      [w |-> 1, h |-> 1, px |-> << <<0, 0, 255>> >>] }

Faults == {"none", "decode", "cvt", "rotate", "enhance"}

\* an image file, or a rendered PDF page, with the collaborators' answers on it
ImagePages ==
    { [kind |-> "image", images |-> <<r>>, osd |-> o, fault |-> f, rotOut |-> t] :
        r \in Rasters, o \in OsdOutcomes, f \in Faults, t \in RotOuts }

\* a '.pdf' path handed to enhance_image_with_previous_filter: no page, one
\* page, or two pages of which the first is used
PdfPathPages ==
    { [kind |-> "pdf", images |-> im, osd |-> o, fault |-> f, rotOut |-> t] :
        im \in {<<>>} \cup { <<r>> : r \in { x \in Rasters : x.w = 1 } }
                     \cup { <<r, r>> : r \in { x \in Rasters : x.w = 1 } },
        o \in {OsdOf(0), OsdOf(90)}, f \in {"none", "decode"}, t \in RotOuts }

Pages == ImagePages \cup PdfPathPages

----------------------------------------------------------------------------
(* SpecPage: both copies of the pipeline on one page *)

NotRun == [done |-> FALSE, run |-> NoLocals]

\* the variables of the other specifications, at rest
IdlePage ==
    /\ page = [kind |-> "image", images |-> <<NoRaster>>, osd |-> OsdRaises, fault |-> "none",
               rotOut |-> NoRaster]
    /\ imgRun = NotRun
    /\ pdfRun = NotRun

IdlePoint ==
    /\ pin = NoRaster
    /\ pouts = <<>>

IdleBatch ==
    /\ folder = <<>>
    /\ fi = 0
    /\ pc = "idle"
    /\ pi = 0
    /\ processed_images = [isNone |-> TRUE, list |-> <<>>]
    /\ enhanced_image = None
    /\ writes = <<>>
    /\ completed = {}
    /\ log = <<>>

InitPage ==
    /\ page \in Pages
    /\ imgRun = NotRun
    /\ pdfRun = NotRun
    /\ IdlePoint
    /\ IdleBatch

EnhanceImage ==
    /\ ~imgRun.done
    /\ imgRun' = [done |-> TRUE, run |-> enhance_image_with_previous_filter(page)]
    /\ UNCHANGED <<page, pdfRun, pointVars, batchVars>>

PdfPage ==
    /\ ~pdfRun.done
    /\ page.images # <<>>
    /\ pdfRun' = [done |-> TRUE, run |-> pdf_page_body(page)]
    /\ UNCHANGED <<page, imgRun, pointVars, batchVars>>

NextPage == EnhanceImage \/ PdfPage

SpecPage == InitPage /\ [][NextPage]_vars

----------------------------------------------------------------------------
(* SpecPoint: the threshold of enhance_image_with_previous_filter applied   *)
(* to a grayscale raster, and again to its result                           *)

EdgeGrays == {0, 99, 100, 101, 255}

\* every one-pixel raster, and longer rasters of values around the threshold
GrayRasters ==
    { [w |-> 1, h |-> 1, px |-> <<v>>] : v \in 0..255 }
      \cup UNION { { [w |-> n, h |-> 1, px |-> p] : p \in [1..n -> EdgeGrays] } : n \in 2..MaxPixels }

InitPoint ==
    /\ pin \in GrayRasters
    /\ pouts = <<>>
    /\ IdlePage
    /\ IdleBatch

Threshold ==
    /\ Len(pouts) < 2
    /\ pouts' = Append(pouts, point_image(IF pouts = <<>> THEN pin ELSE pouts[Len(pouts)]))
    /\ UNCHANGED <<pageVars, pin, batchVars>>

NextPoint == Threshold

SpecPoint == InitPoint /\ [][NextPoint]_vars

----------------------------------------------------------------------------
(* Properties of the page pipeline (SpecPage) and of the threshold          *)
(* (SpecPoint)                                                              *)

Runs == {imgRun, pdfRun}

\* C1: binarization is an exact global threshold at 100: every pixel of the
\* brightness-adjusted raster below 100 comes out 0, every pixel at or above
\* 100 comes out 255 (for each value 0..255), so every pixel of a raster
\* returned by enhance_image_with_previous_filter or appended by
\* process_pdf_with_previous_filter is 0 or 255.
C1_BinarizationExact ==
    /\ \A v \in 0..255 :
          /\ point_lambda_image(v) = IF v < 100 THEN 0 ELSE 255
          /\ point_lambda_pdf(v) = IF v < 100 THEN 0 ELSE 255
    /\ \A r \in Runs :
          (r.done /\ ~r.run.ret.isNone) =>
              LET b == r.run.brightness.px
                  o == r.run.ret.img.px
              IN  /\ Len(o) = Len(b)
                  /\ \A i \in 1..Len(b) :
                        /\ o[i] \in {0, 255}
                        /\ b[i] < 100 => o[i] = 0
                        /\ b[i] >= 100 => o[i] = 255

\* a finished run whose brightness-adjusted raster holds a pixel of exactly 100
C1_Witness ==
    /\ imgRun.done /\ ~imgRun.run.ret.isNone
    /\ \E i \in 1..Len(imgRun.run.brightness.px) :
          imgRun.run.brightness.px[i] = 100 /\ imgRun.run.ret.img.px[i] = 255

\* C2: when the detector reports an angle in (-5, 5], in [355, 360) or 0,
\* needs_rotation_correction answers (False, 0) and correct_image_rotation
\* returns its input unchanged without calling the rotation routine; the
\* rotation routine is called, with exactly the detected angle, only when
\* 5 < |angle| < 355, which includes 90, 180 and 270.
C2_SignificanceThreshold ==
    \A r \in Runs : \A a \in DetectedAngles :
        (/\ r.done
         /\ page.fault \notin {"decode", "cvt"}
         /\ page.images # <<>>
         /\ page.osd = OsdOf(a)) =>
            /\ ((-5 < a /\ a <= 5) \/ (355 <= a /\ a < 360) \/ a = 0) =>
                  /\ ~r.run.needs_rotation
                  /\ r.run.rotation_angle = 0
                  /\ r.run.rotateCalls = <<>>
                  /\ r.run.img_rotated_cv = r.run.img_cv
            /\ r.run.rotateCalls # <<>> =>
                  /\ r.run.rotateCalls = <<a>>
                  /\ 5 < Abs(a) /\ Abs(a) < 355
            /\ a \in {90, 180, 270} => r.run.rotateCalls = <<a>>

\* a finished run on a page for which the detector reported exactly 5
C2_Witness ==
    /\ imgRun.done /\ page.fault = "none" /\ page.osd = OsdOf(5)
    /\ imgRun.run.rotateCalls = <<>> /\ ~imgRun.run.ret.isNone

\* C3: when the detector raises, or its output has no 'Rotate: ' line, the
\* angle is 0, no rotation is applied, and the page goes on through contrast,
\* brightness and binarization to the raster a detected angle of 0 gives.
C3_DetectionFailureNotFatal ==
    LET zero == [page EXCEPT !.osd = OsdOf(0)]
    IN  \A r \in Runs :
            (/\ r.done
             /\ page.fault \notin {"decode", "cvt"}
             /\ page.images # <<>>
             /\ (page.osd.raises \/ page.osd.text = OsdNoRotate)) =>
                /\ r.run.rotation_angle = 0
                /\ ~r.run.needs_rotation
                /\ r.run.rotateCalls = <<>>
                /\ r.run.img_rotated_cv = r.run.img_cv
                /\ page.fault # "enhance" => ~r.run.raised /\ ~r.run.ret.isNone
                /\ r = imgRun => r.run.ret = enhance_image_with_previous_filter(zero).ret
                /\ r = pdfRun => r.run.ret = pdf_page_body(zero).ret

\* a finished run on a page whose detector raised, with a raster returned
C3_Witness ==
    /\ imgRun.done /\ page.osd.raises /\ page.fault = "none"
    /\ ~imgRun.run.ret.isNone

\* C4: the brightness factor is 1.5 exactly when the mean of the raster
\* contrast-stretched by 2.0 is strictly below 128, and 1.0 (raster unchanged)
\* otherwise; the mean is that of the post-contrast raster.
C4_BrightnessConditional ==
    \A r \in Runs :
        (r.done /\ ~r.run.ret.isNone) =>
            LET g == r.run.img_gray.px
                c == r.run.img_contrasted.px
                b == r.run.brightness.px
                n == Len(g)
                m == (2 * SumSeq(g) + n) \div (2 * n)
                Clip(x) == IF x < 0 THEN 0 ELSE IF x > 255 THEN 255 ELSE x
            IN  /\ Len(c) = n /\ Len(b) = n
                /\ \A i \in 1..n : c[i] = Clip(2 * g[i] - m)
                /\ r.run.factor \in {<<3, 2>>, <<1, 1>>}
                /\ r.run.factor = <<3, 2>> <=> SumSeq(c) < 128 * n
                /\ r.run.factor = <<1, 1>> => b = c
                /\ r.run.factor = <<3, 2>> => \A i \in 1..n : b[i] = Clip((3 * c[i]) \div 2)

\* a finished run boosted by 1.5 although the mean before the contrast
\* stretch was 128 or more
C4_Witness ==
    /\ imgRun.done /\ ~imgRun.run.ret.isNone
    /\ imgRun.run.factor = <<3, 2>>
    /\ SumSeq(imgRun.run.img_gray.px) >= 128 * Len(imgRun.run.img_gray.px)

\* C8: thresholding an already thresholded raster gives the same raster as
\* thresholding once.
C8_BinarizationIdempotent ==
    Len(pouts) = 2 => pouts[2] = pouts[1]

\* a raster with pixels on both sides of the threshold, thresholded twice
C8_Witness ==
    /\ Len(pouts) = 2
    /\ pin.px = <<99, 100>>
    /\ pouts[1].px = <<0, 255>>

\* C9: when grayscale conversion or the rotation raises inside
\* correct_image_rotation, it returns its input raster unchanged and the page
\* goes on through contrast, brightness and binarization.
C9_RotationFailurePassThrough ==
    LET clean == [page EXCEPT !.osd = OsdOf(0), !.fault = "none"]
    IN  \A r \in Runs :
            (r.done /\ page.images # <<>> /\ page.fault \in {"cvt", "rotate"}) =>
                /\ r.run.img_cv = CvSwapRB(page.images[1])
                /\ r.run.img_rotated_cv = r.run.img_cv
                /\ ~r.run.raised
                /\ ~r.run.ret.isNone
                /\ r = imgRun => r.run.ret = enhance_image_with_previous_filter(clean).ret
                /\ r = pdfRun => r.run.ret = pdf_page_body(clean).ret

\* a finished run in which the rotation routine was called and raised
C9_Witness ==
    /\ imgRun.done /\ page.fault = "rotate"
    /\ imgRun.run.rotateCalls = <<90>>
    /\ ~imgRun.run.ret.isNone

\* C10: on the same decoded raster and the same detector result, the image
\* path and the page loop of the PDF path go through the same stages and give
\* the same raster.
C10_SamePipeline ==
    (imgRun.done /\ pdfRun.done) =>
        [imgRun.run EXCEPT !.log = <<>>] = [pdfRun.run EXCEPT !.log = <<>>]

\* both paths finished on a page that was rotated and binarized
C10_Witness ==
    /\ imgRun.done /\ pdfRun.done
    /\ imgRun.run.rotateCalls # <<>>
    /\ ~imgRun.run.ret.isNone /\ ~pdfRun.run.ret.isNone

----------------------------------------------------------------------------
(* File names *)

\* The case data of the Unicode database (version 14.0, that of CPython 3.11)
\* str.lower() works from, as ranges of code points.  LowerTable holds the one-character lowercase mappings as
\* <<first, last, step, delta>>: every step-th character from first to last
\* lowers to the character delta further on.
LowerTable ==
    << <<65, 90, 1, 32>>, <<192, 214, 1, 32>>, <<216, 222, 1, 32>>, <<256, 302, 2, 1>>,
       <<306, 310, 2, 1>>, <<313, 327, 2, 1>>, <<330, 374, 2, 1>>, <<376, 376, 1, -121>>,
       <<377, 381, 2, 1>>, <<385, 385, 1, 210>>, <<386, 388, 2, 1>>, <<390, 390, 1, 206>>,
       <<391, 391, 1, 1>>, <<393, 394, 1, 205>>, <<395, 395, 1, 1>>, <<398, 398, 1, 79>>,
       <<399, 399, 1, 202>>, <<400, 400, 1, 203>>, <<401, 401, 1, 1>>, <<403, 403, 1, 205>>,
       <<404, 404, 1, 207>>, <<406, 406, 1, 211>>, <<407, 407, 1, 209>>, <<408, 408, 1, 1>>,
       <<412, 412, 1, 211>>, <<413, 413, 1, 213>>, <<415, 415, 1, 214>>, <<416, 420, 2, 1>>,
       <<422, 422, 1, 218>>, <<423, 423, 1, 1>>, <<425, 425, 1, 218>>, <<428, 428, 1, 1>>,
       <<430, 430, 1, 218>>, <<431, 431, 1, 1>>, <<433, 434, 1, 217>>, <<435, 437, 2, 1>>,
       <<439, 439, 1, 219>>, <<440, 440, 1, 1>>, <<444, 444, 1, 1>>, <<452, 452, 1, 2>>,
       <<453, 453, 1, 1>>, <<455, 455, 1, 2>>, <<456, 456, 1, 1>>, <<458, 458, 1, 2>>,
       <<459, 475, 2, 1>>, <<478, 494, 2, 1>>, <<497, 497, 1, 2>>, <<498, 500, 2, 1>>,
       <<502, 502, 1, -97>>, <<503, 503, 1, -56>>, <<504, 542, 2, 1>>, <<544, 544, 1, -130>>,
       <<546, 562, 2, 1>>, <<570, 570, 1, 10795>>, <<571, 571, 1, 1>>, <<573, 573, 1, -163>>,
       <<574, 574, 1, 10792>>, <<577, 577, 1, 1>>, <<579, 579, 1, -195>>, <<580, 580, 1, 69>>,
       <<581, 581, 1, 71>>, <<582, 590, 2, 1>>, <<880, 882, 2, 1>>, <<886, 886, 1, 1>>,
       <<895, 895, 1, 116>>, <<902, 902, 1, 38>>, <<904, 906, 1, 37>>, <<908, 908, 1, 64>>,
       <<910, 911, 1, 63>>, <<913, 929, 1, 32>>, <<931, 939, 1, 32>>, <<975, 975, 1, 8>>,
       <<984, 1006, 2, 1>>, <<1012, 1012, 1, -60>>, <<1015, 1015, 1, 1>>, <<1017, 1017, 1, -7>>,
       <<1018, 1018, 1, 1>>, <<1021, 1023, 1, -130>>, <<1024, 1039, 1, 80>>, <<1040, 1071, 1, 32>>,
       <<1120, 1152, 2, 1>>, <<1162, 1214, 2, 1>>, <<1216, 1216, 1, 15>>, <<1217, 1229, 2, 1>>,
       <<1232, 1326, 2, 1>>, <<1329, 1366, 1, 48>>, <<4256, 4293, 1, 7264>>, <<4295, 4295, 1, 7264>>,
       <<4301, 4301, 1, 7264>>, <<5024, 5103, 1, 38864>>, <<5104, 5109, 1, 8>>, <<7312, 7354, 1, -3008>>,
       <<7357, 7359, 1, -3008>>, <<7680, 7828, 2, 1>>, <<7838, 7838, 1, -7615>>, <<7840, 7934, 2, 1>>,
       <<7944, 7951, 1, -8>>, <<7960, 7965, 1, -8>>, <<7976, 7983, 1, -8>>, <<7992, 7999, 1, -8>>,
       <<8008, 8013, 1, -8>>, <<8025, 8031, 2, -8>>, <<8040, 8047, 1, -8>>, <<8072, 8079, 1, -8>>,
       <<8088, 8095, 1, -8>>, <<8104, 8111, 1, -8>>, <<8120, 8121, 1, -8>>, <<8122, 8123, 1, -74>>,
       <<8124, 8124, 1, -9>>, <<8136, 8139, 1, -86>>, <<8140, 8140, 1, -9>>, <<8152, 8153, 1, -8>>,
       <<8154, 8155, 1, -100>>, <<8168, 8169, 1, -8>>, <<8170, 8171, 1, -112>>, <<8172, 8172, 1, -7>>,
       <<8184, 8185, 1, -128>>, <<8186, 8187, 1, -126>>, <<8188, 8188, 1, -9>>, <<8486, 8486, 1, -7517>>,
       <<8490, 8490, 1, -8383>>, <<8491, 8491, 1, -8262>>, <<8498, 8498, 1, 28>>, <<8544, 8559, 1, 16>>,
       <<8579, 8579, 1, 1>>, <<9398, 9423, 1, 26>>, <<11264, 11311, 1, 48>>, <<11360, 11360, 1, 1>>,
       <<11362, 11362, 1, -10743>>, <<11363, 11363, 1, -3814>>, <<11364, 11364, 1, -10727>>, <<11367, 11371, 2, 1>>,
       <<11373, 11373, 1, -10780>>, <<11374, 11374, 1, -10749>>, <<11375, 11375, 1, -10783>>, <<11376, 11376, 1, -10782>>,
       <<11378, 11378, 1, 1>>, <<11381, 11381, 1, 1>>, <<11390, 11391, 1, -10815>>, <<11392, 11490, 2, 1>>,
       <<11499, 11501, 2, 1>>, <<11506, 11506, 1, 1>>, <<42560, 42604, 2, 1>>, <<42624, 42650, 2, 1>>,
       <<42786, 42798, 2, 1>>, <<42802, 42862, 2, 1>>, <<42873, 42875, 2, 1>>, <<42877, 42877, 1, -35332>>,
       <<42878, 42886, 2, 1>>, <<42891, 42891, 1, 1>>, <<42893, 42893, 1, -42280>>, <<42896, 42898, 2, 1>>,
       <<42902, 42920, 2, 1>>, <<42922, 42922, 1, -42308>>, <<42923, 42923, 1, -42319>>, <<42924, 42924, 1, -42315>>,
       <<42925, 42925, 1, -42305>>, <<42926, 42926, 1, -42308>>, <<42928, 42928, 1, -42258>>, <<42929, 42929, 1, -42282>>,
       <<42930, 42930, 1, -42261>>, <<42931, 42931, 1, 928>>, <<42932, 42946, 2, 1>>, <<42948, 42948, 1, -48>>,
       <<42949, 42949, 1, -42307>>, <<42950, 42950, 1, -35384>>, <<42951, 42953, 2, 1>>, <<42960, 42960, 1, 1>>,
       <<42966, 42968, 2, 1>>, <<42997, 42997, 1, 1>>, <<65313, 65338, 1, 32>>, <<66560, 66599, 1, 40>>,
       <<66736, 66771, 1, 40>>, <<66928, 66938, 1, 39>>, <<66940, 66954, 1, 39>>, <<66956, 66962, 1, 39>>,
       <<66964, 66965, 1, 39>>, <<68736, 68786, 1, 64>>, <<71840, 71871, 1, 32>>, <<93760, 93791, 1, 32>>,
       <<125184, 125217, 1, 34>> >>

\* the characters with the property Cased, as <<first, last>>
CasedRanges ==
    << <<65, 90>>, <<97, 122>>, <<170, 170>>, <<181, 181>>, <<186, 186>>, <<192, 214>>,
       <<216, 246>>, <<248, 442>>, <<444, 447>>, <<452, 659>>, <<661, 696>>, <<704, 705>>,
       <<736, 740>>, <<837, 837>>, <<880, 883>>, <<886, 887>>, <<890, 893>>, <<895, 895>>,
       <<902, 902>>, <<904, 906>>, <<908, 908>>, <<910, 929>>, <<931, 1013>>, <<1015, 1153>>,
       <<1162, 1327>>, <<1329, 1366>>, <<1376, 1416>>, <<4256, 4293>>, <<4295, 4295>>, <<4301, 4301>>,
       <<4304, 4346>>, <<4349, 4351>>, <<5024, 5109>>, <<5112, 5117>>, <<7296, 7304>>, <<7312, 7354>>,
       <<7357, 7359>>, <<7424, 7615>>, <<7680, 7957>>, <<7960, 7965>>, <<7968, 8005>>, <<8008, 8013>>,
       <<8016, 8023>>, <<8025, 8025>>, <<8027, 8027>>, <<8029, 8029>>, <<8031, 8061>>, <<8064, 8116>>,
       <<8118, 8124>>, <<8126, 8126>>, <<8130, 8132>>, <<8134, 8140>>, <<8144, 8147>>, <<8150, 8155>>,
       <<8160, 8172>>, <<8178, 8180>>, <<8182, 8188>>, <<8305, 8305>>, <<8319, 8319>>, <<8336, 8348>>,
       <<8450, 8450>>, <<8455, 8455>>, <<8458, 8467>>, <<8469, 8469>>, <<8473, 8477>>, <<8484, 8484>>,
       <<8486, 8486>>, <<8488, 8488>>, <<8490, 8493>>, <<8495, 8500>>, <<8505, 8505>>, <<8508, 8511>>,
       <<8517, 8521>>, <<8526, 8526>>, <<8544, 8575>>, <<8579, 8580>>, <<9398, 9449>>, <<11264, 11492>>,
       <<11499, 11502>>, <<11506, 11507>>, <<11520, 11557>>, <<11559, 11559>>, <<11565, 11565>>, <<42560, 42605>>,
       <<42624, 42653>>, <<42786, 42887>>, <<42891, 42894>>, <<42896, 42954>>, <<42960, 42961>>, <<42963, 42963>>,
       <<42965, 42969>>, <<42997, 42998>>, <<43000, 43002>>, <<43824, 43866>>, <<43868, 43880>>, <<43888, 43967>>,
       <<64256, 64262>>, <<64275, 64279>>, <<65313, 65338>>, <<65345, 65370>>, <<66560, 66639>>, <<66736, 66771>>,
       <<66776, 66811>>, <<66928, 66938>>, <<66940, 66954>>, <<66956, 66962>>, <<66964, 66965>>, <<66967, 66977>>,
       <<66979, 66993>>, <<66995, 67001>>, <<67003, 67004>>, <<67456, 67456>>, <<67459, 67461>>, <<67463, 67504>>,
       <<67506, 67514>>, <<68736, 68786>>, <<68800, 68850>>, <<71840, 71903>>, <<93760, 93823>>, <<119808, 119892>>,
       <<119894, 119964>>, <<119966, 119967>>, <<119970, 119970>>, <<119973, 119974>>, <<119977, 119980>>, <<119982, 119993>>,
       <<119995, 119995>>, <<119997, 120003>>, <<120005, 120069>>, <<120071, 120074>>, <<120077, 120084>>, <<120086, 120092>>,
       <<120094, 120121>>, <<120123, 120126>>, <<120128, 120132>>, <<120134, 120134>>, <<120138, 120144>>, <<120146, 120485>>,
       <<120488, 120512>>, <<120514, 120538>>, <<120540, 120570>>, <<120572, 120596>>, <<120598, 120628>>, <<120630, 120654>>,
       <<120656, 120686>>, <<120688, 120712>>, <<120714, 120744>>, <<120746, 120770>>, <<120772, 120779>>, <<122624, 122633>>,
       <<122635, 122654>>, <<125184, 125251>>, <<127280, 127305>>, <<127312, 127337>>, <<127344, 127369>> >>

\* the characters with the property Case_Ignorable, as <<first, last>>
CaseIgnorableRanges ==
    << <<39, 39>>, <<46, 46>>, <<58, 58>>, <<94, 94>>, <<96, 96>>, <<168, 168>>,
       <<173, 173>>, <<175, 175>>, <<180, 180>>, <<183, 184>>, <<688, 879>>, <<884, 885>>,
       <<890, 890>>, <<900, 901>>, <<903, 903>>, <<1155, 1161>>, <<1369, 1369>>, <<1375, 1375>>,
       <<1425, 1469>>, <<1471, 1471>>, <<1473, 1474>>, <<1476, 1477>>, <<1479, 1479>>, <<1524, 1524>>,
       <<1536, 1541>>, <<1552, 1562>>, <<1564, 1564>>, <<1600, 1600>>, <<1611, 1631>>, <<1648, 1648>>,
       <<1750, 1757>>, <<1759, 1768>>, <<1770, 1773>>, <<1807, 1807>>, <<1809, 1809>>, <<1840, 1866>>,
       <<1958, 1968>>, <<2027, 2037>>, <<2042, 2042>>, <<2045, 2045>>, <<2070, 2093>>, <<2137, 2139>>,
       <<2184, 2184>>, <<2192, 2193>>, <<2200, 2207>>, <<2249, 2306>>, <<2362, 2362>>, <<2364, 2364>>,
       <<2369, 2376>>, <<2381, 2381>>, <<2385, 2391>>, <<2402, 2403>>, <<2417, 2417>>, <<2433, 2433>>,
       <<2492, 2492>>, <<2497, 2500>>, <<2509, 2509>>, <<2530, 2531>>, <<2558, 2558>>, <<2561, 2562>>,
       <<2620, 2620>>, <<2625, 2626>>, <<2631, 2632>>, <<2635, 2637>>, <<2641, 2641>>, <<2672, 2673>>,
       <<2677, 2677>>, <<2689, 2690>>, <<2748, 2748>>, <<2753, 2757>>, <<2759, 2760>>, <<2765, 2765>>,
       <<2786, 2787>>, <<2810, 2815>>, <<2817, 2817>>, <<2876, 2876>>, <<2879, 2879>>, <<2881, 2884>>,
       <<2893, 2893>>, <<2901, 2902>>, <<2914, 2915>>, <<2946, 2946>>, <<3008, 3008>>, <<3021, 3021>>,
       <<3072, 3072>>, <<3076, 3076>>, <<3132, 3132>>, <<3134, 3136>>, <<3142, 3144>>, <<3146, 3149>>,
       <<3157, 3158>>, <<3170, 3171>>, <<3201, 3201>>, <<3260, 3260>>, <<3263, 3263>>, <<3270, 3270>>,
       <<3276, 3277>>, <<3298, 3299>>, <<3328, 3329>>, <<3387, 3388>>, <<3393, 3396>>, <<3405, 3405>>,
       <<3426, 3427>>, <<3457, 3457>>, <<3530, 3530>>, <<3538, 3540>>, <<3542, 3542>>, <<3633, 3633>>,
       <<3636, 3642>>, <<3654, 3662>>, <<3761, 3761>>, <<3764, 3772>>, <<3782, 3782>>, <<3784, 3789>>,
       <<3864, 3865>>, <<3893, 3893>>, <<3895, 3895>>, <<3897, 3897>>, <<3953, 3966>>, <<3968, 3972>>,
       <<3974, 3975>>, <<3981, 3991>>, <<3993, 4028>>, <<4038, 4038>>, <<4141, 4144>>, <<4146, 4151>>,
       <<4153, 4154>>, <<4157, 4158>>, <<4184, 4185>>, <<4190, 4192>>, <<4209, 4212>>, <<4226, 4226>>,
       <<4229, 4230>>, <<4237, 4237>>, <<4253, 4253>>, <<4348, 4348>>, <<4957, 4959>>, <<5906, 5908>>,
       <<5938, 5939>>, <<5970, 5971>>, <<6002, 6003>>, <<6068, 6069>>, <<6071, 6077>>, <<6086, 6086>>,
       <<6089, 6099>>, <<6103, 6103>>, <<6109, 6109>>, <<6155, 6159>>, <<6211, 6211>>, <<6277, 6278>>,
       <<6313, 6313>>, <<6432, 6434>>, <<6439, 6440>>, <<6450, 6450>>, <<6457, 6459>>, <<6679, 6680>>,
       <<6683, 6683>>, <<6742, 6742>>, <<6744, 6750>>, <<6752, 6752>>, <<6754, 6754>>, <<6757, 6764>>,
       <<6771, 6780>>, <<6783, 6783>>, <<6823, 6823>>, <<6832, 6862>>, <<6912, 6915>>, <<6964, 6964>>,
       <<6966, 6970>>, <<6972, 6972>>, <<6978, 6978>>, <<7019, 7027>>, <<7040, 7041>>, <<7074, 7077>>,
       <<7080, 7081>>, <<7083, 7085>>, <<7142, 7142>>, <<7144, 7145>>, <<7149, 7149>>, <<7151, 7153>>,
       <<7212, 7219>>, <<7222, 7223>>, <<7288, 7293>>, <<7376, 7378>>, <<7380, 7392>>, <<7394, 7400>>,
       <<7405, 7405>>, <<7412, 7412>>, <<7416, 7417>>, <<7468, 7530>>, <<7544, 7544>>, <<7579, 7679>>,
       <<8125, 8125>>, <<8127, 8129>>, <<8141, 8143>>, <<8157, 8159>>, <<8173, 8175>>, <<8189, 8190>>,
       <<8203, 8207>>, <<8216, 8217>>, <<8228, 8228>>, <<8231, 8231>>, <<8234, 8238>>, <<8288, 8292>>,
       <<8294, 8303>>, <<8305, 8305>>, <<8319, 8319>>, <<8336, 8348>>, <<8400, 8432>>, <<11388, 11389>>,
       <<11503, 11505>>, <<11631, 11631>>, <<11647, 11647>>, <<11744, 11775>>, <<11823, 11823>>, <<12293, 12293>>,
       <<12330, 12333>>, <<12337, 12341>>, <<12347, 12347>>, <<12441, 12446>>, <<12540, 12542>>, <<40981, 40981>>,
       <<42232, 42237>>, <<42508, 42508>>, <<42607, 42610>>, <<42612, 42621>>, <<42623, 42623>>, <<42652, 42655>>,
       <<42736, 42737>>, <<42752, 42785>>, <<42864, 42864>>, <<42888, 42890>>, <<42994, 42996>>, <<43000, 43001>>,
       <<43010, 43010>>, <<43014, 43014>>, <<43019, 43019>>, <<43045, 43046>>, <<43052, 43052>>, <<43204, 43205>>,
       <<43232, 43249>>, <<43263, 43263>>, <<43302, 43309>>, <<43335, 43345>>, <<43392, 43394>>, <<43443, 43443>>,
       <<43446, 43449>>, <<43452, 43453>>, <<43471, 43471>>, <<43493, 43494>>, <<43561, 43566>>, <<43569, 43570>>,
       <<43573, 43574>>, <<43587, 43587>>, <<43596, 43596>>, <<43632, 43632>>, <<43644, 43644>>, <<43696, 43696>>,
       <<43698, 43700>>, <<43703, 43704>>, <<43710, 43711>>, <<43713, 43713>>, <<43741, 43741>>, <<43756, 43757>>,
       <<43763, 43764>>, <<43766, 43766>>, <<43867, 43871>>, <<43881, 43883>>, <<44005, 44005>>, <<44008, 44008>>,
       <<44013, 44013>>, <<64286, 64286>>, <<64434, 64450>>, <<65024, 65039>>, <<65043, 65043>>, <<65056, 65071>>,
       <<65106, 65106>>, <<65109, 65109>>, <<65279, 65279>>, <<65287, 65287>>, <<65294, 65294>>, <<65306, 65306>>,
       <<65342, 65342>>, <<65344, 65344>>, <<65392, 65392>>, <<65438, 65439>>, <<65507, 65507>>, <<65529, 65531>>,
       <<66045, 66045>>, <<66272, 66272>>, <<66422, 66426>>, <<67456, 67461>>, <<67463, 67504>>, <<67506, 67514>>,
       <<68097, 68099>>, <<68101, 68102>>, <<68108, 68111>>, <<68152, 68154>>, <<68159, 68159>>, <<68325, 68326>>,
       <<68900, 68903>>, <<69291, 69292>>, <<69446, 69456>>, <<69506, 69509>>, <<69633, 69633>>, <<69688, 69702>>,
       <<69744, 69744>>, <<69747, 69748>>, <<69759, 69761>>, <<69811, 69814>>, <<69817, 69818>>, <<69821, 69821>>,
       <<69826, 69826>>, <<69837, 69837>>, <<69888, 69890>>, <<69927, 69931>>, <<69933, 69940>>, <<70003, 70003>>,
       <<70016, 70017>>, <<70070, 70078>>, <<70089, 70092>>, <<70095, 70095>>, <<70191, 70193>>, <<70196, 70196>>,
       <<70198, 70199>>, <<70206, 70206>>, <<70367, 70367>>, <<70371, 70378>>, <<70400, 70401>>, <<70459, 70460>>,
       <<70464, 70464>>, <<70502, 70508>>, <<70512, 70516>>, <<70712, 70719>>, <<70722, 70724>>, <<70726, 70726>>,
       <<70750, 70750>>, <<70835, 70840>>, <<70842, 70842>>, <<70847, 70848>>, <<70850, 70851>>, <<71090, 71093>>,
       <<71100, 71101>>, <<71103, 71104>>, <<71132, 71133>>, <<71219, 71226>>, <<71229, 71229>>, <<71231, 71232>>,
       <<71339, 71339>>, <<71341, 71341>>, <<71344, 71349>>, <<71351, 71351>>, <<71453, 71455>>, <<71458, 71461>>,
       <<71463, 71467>>, <<71727, 71735>>, <<71737, 71738>>, <<71995, 71996>>, <<71998, 71998>>, <<72003, 72003>>,
       <<72148, 72151>>, <<72154, 72155>>, <<72160, 72160>>, <<72193, 72202>>, <<72243, 72248>>, <<72251, 72254>>,
       <<72263, 72263>>, <<72273, 72278>>, <<72281, 72283>>, <<72330, 72342>>, <<72344, 72345>>, <<72752, 72758>>,
       <<72760, 72765>>, <<72767, 72767>>, <<72850, 72871>>, <<72874, 72880>>, <<72882, 72883>>, <<72885, 72886>>,
       <<73009, 73014>>, <<73018, 73018>>, <<73020, 73021>>, <<73023, 73029>>, <<73031, 73031>>, <<73104, 73105>>,
       <<73109, 73109>>, <<73111, 73111>>, <<73459, 73460>>, <<78896, 78904>>, <<92912, 92916>>, <<92976, 92982>>,
       <<92992, 92995>>, <<94031, 94031>>, <<94095, 94111>>, <<94176, 94177>>, <<94179, 94180>>, <<110576, 110579>>,
       <<110581, 110587>>, <<110589, 110590>>, <<113821, 113822>>, <<113824, 113827>>, <<118528, 118573>>, <<118576, 118598>>,
       <<119143, 119145>>, <<119155, 119170>>, <<119173, 119179>>, <<119210, 119213>>, <<119362, 119364>>, <<121344, 121398>>,
       <<121403, 121452>>, <<121461, 121461>>, <<121476, 121476>>, <<121499, 121503>>, <<121505, 121519>>, <<122880, 122886>>,
       <<122888, 122904>>, <<122907, 122913>>, <<122915, 122916>>, <<122918, 122922>>, <<123184, 123197>>, <<123566, 123566>>,
       <<123628, 123631>>, <<125136, 125142>>, <<125252, 125259>>, <<127995, 127999>>, <<917505, 917505>>, <<917536, 917631>>,
       <<917760, 917999>> >>

InRanges(c, ranges) == \E k \in 1..Len(ranges) : ranges[k][1] <= c /\ c <= ranges[k][2]

IsCased(c) == InRanges(c, CasedRanges)

IsCaseIgnorable(c) == InRanges(c, CaseIgnorableRanges)

CapitalSigma == 931
SmallSigma == 963
SmallFinalSigma == 962
CapitalIDotAbove == 304
CombiningDotAbove == 775

\* whether the capital sigma s[i] ends a word: the nearest character before
\* it that is not case-ignorable is cased, the nearest such after it is not
FinalSigma(s, i) ==
    LET before == { j \in 1..(i - 1) : ~IsCaseIgnorable(s[j]) }
        after  == { j \in (i + 1)..Len(s) : ~IsCaseIgnorable(s[j]) }
    IN  /\ before # {}
        /\ IsCased(s[CHOOSE j \in before : \A k \in before : k <= j])
        /\ \/ after = {}
           \/ ~IsCased(s[CHOOSE j \in after : \A k \in after : j <= k])

InLowerRow(c, row) == row[1] <= c /\ c <= row[2] /\ (c - row[1]) % row[3] = 0

\* what the character s[i] lowers to
LowerChar(s, i) ==
    IF s[i] = CapitalSigma
    THEN IF FinalSigma(s, i) THEN <<SmallFinalSigma>> ELSE <<SmallSigma>>
    ELSE IF s[i] = CapitalIDotAbove THEN <<Ord("i"), CombiningDotAbove>>
    ELSE IF \E k \in 1..Len(LowerTable) : InLowerRow(s[i], LowerTable[k])
    THEN <<s[i] + LowerTable[CHOOSE k \in 1..Len(LowerTable) : InLowerRow(s[i], LowerTable[k])][4]>>
    ELSE <<s[i]>>

RECURSIVE LowerFrom(_, _)
LowerFrom(s, i) == IF i > Len(s) THEN <<>> ELSE LowerChar(s, i) \o LowerFrom(s, i + 1)

\* str.lower() of a str of ASCII characters only
LowerAscii(s) ==
    [k \in 1..Len(s) |-> IF CapitalA <= s[k] /\ s[k] <= CapitalZ THEN s[k] + 32 ELSE s[k]]

\* str.lower()
Lower(s) == IF \A k \in 1..Len(s) : s[k] < 128 THEN LowerAscii(s) ELSE LowerFrom(s, 1)

StartsWith(s, pre) == Len(s) >= Len(pre) /\ SubSeq(s, 1, Len(pre)) = pre

EndsWith(s, suf) == Len(s) >= Len(suf) /\ SubSeq(s, Len(s) - Len(suf) + 1, Len(s)) = suf

ExtPdf == Text(<<".", "p", "d", "f">>)

valid_extensions ==
    { Text(<<".", "j", "p", "g">>), Text(<<".", "j", "p", "e", "g">>), Text(<<".", "p", "n", "g">>),
      Text(<<".", "b", "m", "p">>), Text(<<".", "t", "i", "f", "f">>), Text(<<".", "t", "i", "f">>), ExtPdf }

\* os.path.splitext(name)[0] for a name without separators: cut at the last
\* dot, unless only dots precede it
SplitextStem(name) ==
    LET dots == { k \in 1..Len(name) : name[k] = Dot }
        last == CHOOSE k \in dots : \A j \in dots : j <= k
    IN  IF dots = {} THEN name
        ELSE IF \E k \in 1..(last - 1) : name[k] # Dot THEN SubSeq(name, 1, last - 1)
        ELSE name

SuffixProcessed == Text(<<"_", "p", "r", "o", "c", "e", "s", "s", "e", "d", ".", "p", "n", "g">>)

SuffixPage == Text(<<"_", "p", "a", "g", "e">>)

\* os.path.splitext(filename)[0] + '_processed.png'
OutputNameImage(filename) == SplitextStem(filename) \o SuffixProcessed

\* f"{os.path.splitext(filename)[0]}_page{i+1}_processed.png"
OutputNamePage(filename, k) ==
    SplitextStem(filename) \o SuffixPage \o IntToText(k + 1) \o SuffixProcessed

----------------------------------------------------------------------------
(* The input folders the model runs the batch on *)

PageOf(v, a, f) ==
    [kind   |-> "image",
     images |-> << [w |-> 1, h |-> 1, px |-> << <<v, v, v>> >>] >>,
     osd    |-> OsdOf(a),
     fault  |-> f,
     rotOut |-> [w |-> 1, h |-> 1, px |-> << <<v, v, v>> >>]]

\* the pages of the catalog, by name: gray level, detected angle, fault
PageData(id) ==
    CASE id = "dark"              -> PageOf(66, 0, "none")
      [] id = "bright"            -> PageOf(203, 0, "none")
      [] id = "undecodable"       -> PageOf(66, 0, "decode")
      [] id = "bright_turned_90"  -> PageOf(203, 90, "none")
      [] id = "dark_turned_270"   -> PageOf(66, 270, "none")
      [] id = "unenhanceable"     -> PageOf(203, 0, "enhance")
      [] id = "unrotatable_180"   -> PageOf(203, 180, "rotate")

\* directory entries: name, whether it is a directory, whether fitz.open
\* succeeds on it, and the pages it holds
Catalog ==
    { [name |-> Text(<<"a", ".", "p", "n", "g">>), isdir |-> FALSE, opens |-> TRUE,
       pages |-> <<"dark">>],
      [name |-> Text(<<"a", ".", "j", "p", "g">>), isdir |-> FALSE, opens |-> TRUE,
       pages |-> <<"bright">>],
      [name |-> Text(<<"b", ".", "P", "N", "G">>), isdir |-> FALSE, opens |-> TRUE,
       pages |-> <<"undecodable">>],
      \* a name that starts with U+00C9, capital E with acute
      [name |-> <<201>> \o Text(<<".", "P", "N", "G">>), isdir |-> FALSE, opens |-> TRUE,
       pages |-> <<"bright">>],
      [name |-> Text(<<"e", ".", "t", "i", "f">>), isdir |-> FALSE, opens |-> TRUE,
       pages |-> <<"bright_turned_90">>],
      [name |-> Text(<<"h", ".", "j", "p", "e", "g">>), isdir |-> FALSE, opens |-> TRUE,
       pages |-> <<"unenhanceable">>],
      [name |-> Text(<<"c", ".", "p", "d", "f">>), isdir |-> FALSE, opens |-> TRUE,
       pages |-> <<"dark", "unrotatable_180">>],
      [name |-> Text(<<"d", ".", "P", "d", "f">>), isdir |-> FALSE, opens |-> TRUE,
       pages |-> <<"bright", "undecodable", "dark_turned_270">>],
      [name |-> Text(<<"f", ".", "p", "d", "f">>), isdir |-> FALSE, opens |-> FALSE,
       pages |-> <<>>],
      [name |-> Text(<<"n", ".", "t", "x", "t">>), isdir |-> FALSE, opens |-> FALSE,
       pages |-> <<>>],
      [name |-> Text(<<".", "h", ".", "p", "n", "g">>), isdir |-> FALSE, opens |-> TRUE,
       pages |-> <<"dark">>],
      [name |-> Text(<<"g", ".", "b", "m", "p">>), isdir |-> TRUE, opens |-> FALSE,
       pages |-> <<>>] }

\* listings of up to MaxFiles entries with distinct names, in any order
Folders ==
    UNION { { f \in [1..n -> Catalog] : \A j, k \in 1..n : j # k => f[j] # f[k] }
            : n \in 0..MaxFiles }

----------------------------------------------------------------------------
(* Spec: process_office_maintenance_documents, from the first iteration of  *)
(* its loop over the input folder                                           *)

MsgPdfFailed == "Failed to process PDF"
MsgFailed == "Failed to process"

Init ==
    /\ folder \in Folders
    /\ fi = 1
    /\ pc = "next"
    /\ pi = 0
    /\ processed_images = [isNone |-> TRUE, list |-> <<>>]
    /\ enhanced_image = None
    /\ writes = <<>>
    /\ completed = {}
    /\ log = <<>>
    /\ IdlePage
    /\ IdlePoint

entry == folder[fi]

filename == entry.name

AtFile == pc = "next" /\ fi <= Len(folder)

\* os.path.isdir(file_path) or filename.startswith('.')
Skipped(e) == e.isdir \/ StartsWith(e.name, <<Dot>>)

\* filename.lower().endswith(valid_extensions)
HasValidExtension(name) == \E ext \in valid_extensions : EndsWith(Lower(name), ext)

\* filename.lower().endswith('.pdf')
IsPdf(name) == EndsWith(Lower(name), ExtPdf)

NextFile ==
    /\ fi' = fi + 1
    /\ pc' = "next"
    /\ pi' = 0

\* `continue` on a directory or a dot file
SkipEntry ==
    /\ AtFile
    /\ Skipped(entry)
    /\ NextFile
    /\ UNCHANGED <<folder, processed_images, enhanced_image, writes, completed, log,
                   pageVars, pointVars>>

\* shutil.copy2 of a file that is no image and no PDF
CopyNonImage ==
    /\ AtFile
    /\ ~Skipped(entry)
    /\ ~HasValidExtension(filename)
    /\ writes' = Append(writes, [path |-> filename, kind |-> "copy", data |-> NoRaster,
                                 file |-> fi, pageno |-> 0])
    /\ NextFile
    /\ UNCHANGED <<folder, processed_images, enhanced_image, completed, log,
                   pageVars, pointVars>>

\* process_pdf_with_previous_filter: fitz.open, which may raise
PdfOpen ==
    /\ AtFile
    /\ ~Skipped(entry)
    /\ HasValidExtension(filename)
    /\ IsPdf(filename)
    /\ IF entry.opens
       THEN /\ processed_images' = [isNone |-> FALSE, list |-> <<>>]
            /\ pc' = "pdf_page"
            /\ log' = log
       ELSE /\ processed_images' = [isNone |-> TRUE, list |-> <<>>]
            /\ pc' = "pdf_save"
            /\ log' = Append(log, [msg |-> MsgPdfFailed, file |-> fi])
    /\ pi' = 0
    /\ UNCHANGED <<folder, fi, enhanced_image, writes, completed, pageVars, pointVars>>

\* one iteration of the page loop that reaches processed_images.append
PdfPageDone ==
    /\ pc = "pdf_page"
    /\ pi < Len(entry.pages)
    /\ LET r == pdf_page_body(PageData(entry.pages[pi + 1]))
       IN  /\ ~r.raised
           /\ processed_images' = [processed_images EXCEPT !.list = Append(@, r.ret.img)]
           /\ completed' = completed \cup {<<fi, pi + 1>>}
    /\ pi' = pi + 1
    /\ UNCHANGED <<folder, fi, pc, enhanced_image, writes, log, pageVars, pointVars>>

\* one iteration of the page loop that raises: the except branch of
\* process_pdf_with_previous_filter returns None
PdfPageRaises ==
    /\ pc = "pdf_page"
    /\ pi < Len(entry.pages)
    /\ pdf_page_body(PageData(entry.pages[pi + 1])).raised
    /\ processed_images' = [isNone |-> TRUE, list |-> <<>>]
    /\ log' = Append(log, [msg |-> MsgPdfFailed, file |-> fi])
    /\ pc' = "pdf_save"
    /\ pi' = 0
    /\ UNCHANGED <<folder, fi, enhanced_image, writes, completed, pageVars, pointVars>>

\* the page loop is over: doc.close() and return processed_images
PdfReturn ==
    /\ pc = "pdf_page"
    /\ pi = Len(entry.pages)
    /\ pc' = "pdf_save"
    /\ pi' = 0
    /\ UNCHANGED <<folder, fi, processed_images, enhanced_image, writes, completed, log,
                   pageVars, pointVars>>

\* `if processed_images:` holds and the loop has a page left: cv2.imwrite
PdfSavePage ==
    /\ pc = "pdf_save"
    /\ ~processed_images.isNone
    /\ pi < Len(processed_images.list)
    /\ writes' = Append(writes, [path |-> OutputNamePage(filename, pi), kind |-> "raster",
                                 data |-> processed_images.list[pi + 1],
                                 file |-> fi, pageno |-> pi + 1])
    /\ pi' = pi + 1
    /\ UNCHANGED <<folder, fi, pc, processed_images, enhanced_image, completed, log,
                   pageVars, pointVars>>

\* processed_images is None or empty, or every page of it was written
PdfSaveOver ==
    /\ pc = "pdf_save"
    /\ processed_images.isNone \/ pi = Len(processed_images.list)
    /\ NextFile
    /\ UNCHANGED <<folder, processed_images, enhanced_image, writes, completed, log,
                   pageVars, pointVars>>

\* enhance_image_with_previous_filter(file_path) on an image file
EnhanceFile ==
    /\ AtFile
    /\ ~Skipped(entry)
    /\ HasValidExtension(filename)
    /\ ~IsPdf(filename)
    /\ LET r == enhance_image_with_previous_filter(PageData(entry.pages[1]))
       IN  /\ enhanced_image' = r.ret
           /\ completed' = IF r.raised THEN completed ELSE completed \cup {<<fi, 1>>}
    /\ pc' = "img_save"
    /\ UNCHANGED <<folder, fi, pi, processed_images, writes, log, pageVars, pointVars>>

\* the branch of `if enhanced_image is not None` that writes without the test
SaveImage_untested ==
    /\ pc = "img_save"
    /\ writes' = Append(writes, [path |-> OutputNameImage(filename), kind |-> "raster",
                                 data |-> enhanced_image.img, file |-> fi, pageno |-> 1])
    /\ NextFile
    /\ UNCHANGED <<folder, processed_images, enhanced_image, completed, log,
                   pageVars, pointVars>>

\* enhanced_image is not None: cv2.imwrite
SaveImage ==
    /\ pc = "img_save"
    /\ ~enhanced_image.isNone
    /\ writes' = Append(writes, [path |-> OutputNameImage(filename), kind |-> "raster",
                                 data |-> enhanced_image.img, file |-> fi, pageno |-> 1])
    /\ NextFile
    /\ UNCHANGED <<folder, processed_images, enhanced_image, completed, log,
                   pageVars, pointVars>>

\* enhanced_image is None: "Failed to process"
ImageFailed ==
    /\ pc = "img_save"
    /\ enhanced_image.isNone
    /\ log' = Append(log, [msg |-> MsgFailed, file |-> fi])
    /\ NextFile
    /\ UNCHANGED <<folder, processed_images, enhanced_image, writes, completed,
                   pageVars, pointVars>>

\* the loop over the folder is over
Finish ==
    /\ pc = "next"
    /\ fi > Len(folder)
    /\ pc' = "done"
    /\ UNCHANGED <<folder, fi, pi, processed_images, enhanced_image, writes, completed, log,
                   pageVars, pointVars>>

Next ==
    \/ SkipEntry
    \/ CopyNonImage
    \/ PdfOpen
    \/ PdfPageDone
    \/ PdfPageRaises
    \/ PdfReturn
    \/ PdfSavePage
    \/ PdfSaveOver
    \/ EnhanceFile
    \/ SaveImage
    \/ ImageFailed
    \/ Finish

Spec == Init /\ [][Next]_vars

----------------------------------------------------------------------------
(* Properties of the batch run (Spec) *)

RasterWrites == { k \in 1..Len(writes) : writes[k].kind = "raster" }

\* the entries the loop hands to the pipeline
Processed(e) == ~Skipped(e) /\ HasValidExtension(e.name)

\* a page that decodes and goes through every stage when processed on its own
CanComplete(pg) == pg.fault \notin {"decode", "enhance"}

\* C5: a failure while processing one page never halts the processing of
\* later pages, of the same PDF or of later files: at the end of the run every
\* page that can itself complete the pipeline has been processed and written.
C5_PerPageIsolation ==
    pc = "done" =>
        \A f \in 1..Len(folder) : \A p \in 1..Len(folder[f].pages) :
            (Processed(folder[f]) /\ CanComplete(PageData(folder[f].pages[p]))) =>
                \E k \in RasterWrites : writes[k].file = f /\ writes[k].pageno = p

\* C6: in every state of a batch run, every raster written belongs to a page
\* that completed rotation check, contrast, brightness and binarization, the
\* write came after its binarized raster was produced, and a page whose
\* processing failed has no file written for it.
C6_NoPartialOutput ==
    \A k \in RasterWrites :
        LET wr == writes[k]
            pg == PageData(folder[wr.file].pages[wr.pageno])
        IN  /\ <<wr.file, wr.pageno>> \in completed
            /\ CanComplete(pg)
            /\ wr.data.px # <<>>
            /\ \A j \in 1..Len(wr.data.px) : wr.data.px[j] \in {0, 255}
            /\ wr.data = IF IsPdf(folder[wr.file].name)
                         THEN pdf_page_body(pg).ret.img
                         ELSE enhance_image_with_previous_filter(pg).ret.img

\* a finished run that wrote a raster and reported a failed image
C6_Witness ==
    /\ pc = "done"
    /\ RasterWrites # {}
    /\ \E k \in 1..Len(log) : log[k].msg = MsgFailed

\* C7: after a batch run the number of distinct raster files in the output
\* folder equals the number of pages that decoded and completed the pipeline,
\* each written exactly once at the path derived from its file name.
C7_OneRasterPerPage ==
    pc = "done" =>
        /\ Cardinality({ writes[k].path : k \in RasterWrites }) = Cardinality(completed)
        /\ \A j, k \in RasterWrites : j # k => writes[j].path # writes[k].path
        /\ \A k \in RasterWrites :
              writes[k].path =
                  IF IsPdf(folder[writes[k].file].name)
                  THEN OutputNamePage(folder[writes[k].file].name, writes[k].pageno - 1)
                  ELSE OutputNameImage(folder[writes[k].file].name)

====
